---- MODULE Spec2Model ----
(***************************************************************************)
(* Alfred/core/ai_handler.py: the conversation cache in front of the       *)
(* conversation_history table, and get_chat_response's dispatch with key   *)
(* rotation.                                                               *)
(*                                                                         *)
(* Tasks are asyncio coroutines running get_chat_response on one event     *)
(* loop: a task runs without interruption from one await that suspends to  *)
(* the next, so every action below is the code between two such awaits.    *)
(* The points where a task may be suspended are                            *)
(*   - the SELECT of _get_history (line 102),                              *)
(*   - leaving its "async with" block (session close, between line 107     *)
(*     and line 110),                                                      *)
(*   - send_message_async (line 185),                                      *)
(*   - asyncio.sleep(1) (line 199),                                        *)
(*   - the commit of _save_history (line 143).                             *)
(* A cache hit in _get_history returns without suspending.                 *)
(***************************************************************************)
EXTENDS Integers, Sequences, FiniteSets, TLC

\* ---------------------------------------------------------------- bounds
\* Number of concurrently running get_chat_response coroutines.
NumTasks == 2
\* Number of distinct channel ids (conversations): CACHE_MAX_SIZE + 2, so that
\* a miss can find the cache with more than CACHE_MAX_SIZE other channels.
NumChannels == 3
\* Total number of get_chat_response calls made in one run.
MaxCalls == 3
\* Largest number of keys in settings.GEMINI_API_KEYS (0 = none configured).
MaxKeys == 2
\* Number of on_ready events delivered to the bot in one run.
MaxReady == 2
\* Webhook requests received in one run.
MaxRequests == 2
\* Largest number of whitespace-separated words in an Authorization header.
MaxHeaderWords == 3

\* ------------------------------------------------------- program constants
\* ai_handler.py:16 sets 100 and ai_handler.py:17 sets 20; the model keeps the
\* comparisons and the deque's maxlen and scales the numbers so that an
\* over-full cache and a truncated window are reached in a few calls.
CACHE_MAX_SIZE == 1
CACHE_HISTORY_LENGTH == 4

Tasks == 1..NumTasks
Channels == 1..NumChannels
KeyCounts == 0..MaxKeys
Readies == 1..MaxReady

\* ------------------------------------------------------------- messages
\* A cache entry is {'role': ..., 'parts': [text]}; a table row carries the
\* same role and content.  A text is a tagged pair: the n-th call's prompt,
\* the model's reply to it, or one of the two synthesized instruction turns
\* (SystemTurn, defined with the state, and UnderstoodTurn).
Msg(role, tag, n) == [role |-> role, text |-> <<tag, n>>]
UserMsg(n) == Msg("user", "prompt", n)
ModelMsg(n) == Msg("model", "reply", n)
UnderstoodTurn == Msg("model", "Understood.", 0)

\* What get_chat_response returns.
NoResult == <<"none", 0>>
UNABLE_TO_CONNECT == <<"I am currently unable to connect to my AI core.", 0>>
HIGH_TRAFFIC == <<"My AI core is currently experiencing high traffic.", 0>>
ResponseText(n) == <<"reply", n>>

\* Typed failures of the model endpoint, as raised into line 194.
ProviderErrors == {"AuthError", "RateLimited", "Unavailable"}

\* ---------------------------------------------------------------- state
VARIABLES
    nKeys,        \* len(settings.GEMINI_API_KEYS) = len(self._keys)
    cyclerNext,   \* index (1..nKeys) that next(self._key_cycler) yields next; 0: no cycler
    activeKey,    \* index of the key last given to genai.configure; 0: none
    botUserId,    \* self.bot_user_id is set
    cacheOrder,   \* keys of CONVERSATION_CACHE, in insertion order
    cacheWin,     \* CONVERSATION_CACHE[c] for c in cacheOrder (<<>> otherwise)
    store,        \* conversation_history rows per channel, in commit order
    nCalls,       \* get_chat_response calls made so far
    pc,           \* where each task is
    chan,         \* the task's channel_id
    prompt,       \* the task's prompt (its call number)
    getOutcome,   \* how this call's _get_history ended: "none" (not yet), "returned"
    history,      \* the deque _get_history built or returned, as read at line 171
    attempt,      \* the retry loop's variable
    result,       \* the value returned to the caller
    nAttempts,    \* send_message_async calls made by this call
    nRot,         \* configure_next_key calls made by this call
    keysUsed,     \* the key configured in genai at each send_message_async of this call
    readFailed,   \* the SELECT of this call raised
    writeFailed,  \* the commit of this call raised
    instructionSupplied, \* the callers pass system_instruction (onboarding.py:175)
    rotateReturned,      \* <<value>> returned by the last direct configure_next_key call
    botHandlerUserId,    \* AlfredBot.ai_handler.bot_user_id is set (bot.py:38, 62)
    is_setup_complete,   \* AlfredBot.is_setup_complete
    readyPc,             \* where each on_ready coroutine is
    setupsEntered,       \* times the block of bot.py:69-110 was entered
    apiTasks,            \* start_api_server tasks created (bot.py:74)
    allowedTokens,       \* settings.ALLOWED_INTEGRATION_TOKENS.values()
    nRequests,           \* POSTs to /v1/onboarding/language_set handled so far
    webRequest,          \* the last such request: its header and its payload
    webStatus,           \* the status of the response to it (0: no request yet)
    tasksScheduled       \* handle_language_set coroutines given to the bot loop

vars == <<nKeys, cyclerNext, activeKey, botUserId, cacheOrder, cacheWin, store,
          nCalls, pc, chan, prompt, getOutcome, history, attempt, result,
          nAttempts, nRot, keysUsed, readFailed, writeFailed,
          instructionSupplied, rotateReturned, botHandlerUserId,
          is_setup_complete, readyPc, setupsEntered, apiTasks,
          allowedTokens, nRequests, webRequest, webStatus, tasksScheduled>>

poolVars == <<nKeys, cyclerNext, activeKey>>
taskLocals == <<chan, prompt, getOutcome, history, attempt, result, nAttempts, nRot,
                keysUsed, readFailed, writeFailed>>
\* What the callers of the handler pass and see.
callerVars == <<instructionSupplied, rotateReturned>>
\* The state of AlfredBot (bot.py).
botVars == <<botHandlerUserId, is_setup_complete, readyPc, setupsEntered, apiTasks>>
\* The state of the webhook server (api_server.py).
webVars == <<allowedTokens, nRequests, webRequest, webStatus, tasksScheduled>>

\* Line 155: the parameter's value is the caller's text or the default.
DEFAULT_INSTRUCTION == "You are Alfred, a helpful and concise AI assistant."
system_instruction ==
    IF instructionSupplied THEN "system_instruction" ELSE DEFAULT_INSTRUCTION
\* Line 176: {'role': 'user', 'parts': [system_instruction]}
SystemTurn == Msg("user", system_instruction, 0)

\* ------------------------------------------------------------- helpers
InCache(c) == \E i \in 1..Len(cacheOrder) : cacheOrder[i] = c

LastN(n, s) == IF Len(s) <= n THEN s ELSE SubSeq(s, Len(s) - n + 1, Len(s))

\* DequeAppend on a deque made without maxlen: nothing is dropped.
DequeAppend_Unbounded(d, x) == Append(d, x)

\* deque(maxlen=CACHE_HISTORY_LENGTH).append(x)
DequeAppend(d, x) == LastN(CACHE_HISTORY_LENGTH, Append(d, x))

\* The rows of one commit share their timestamp (server_default=func.now(),
\* evaluated once per transaction), and the SELECT orders by timestamp alone:
\* the order of two rows of one commit is the database's choice.  Rows are
\* written two per commit, so row 2p-1 and row 2p are the p-th commit's.
TieOrders(rows) ==
    { [i \in 1..Len(rows) |->
          IF ((i + 1) \div 2) \in swapped
          THEN rows[IF i % 2 = 1 THEN i + 1 ELSE i - 1]
          ELSE rows[i]] : swapped \in SUBSET (1..(Len(rows) \div 2)) }

\* order_by(desc(timestamp)).limit(CACHE_HISTORY_LENGTH), reversed, appended
\* to a fresh deque: the possible results of the query on a channel's rows.
FetchRecent(rows) == { LastN(CACHE_HISTORY_LENGTH, o) : o \in TieOrders(rows) }

\* Lines 171-176: the list handed to start_chat.
history_list(h) == IF h = <<>> THEN <<SystemTurn, UnderstoodTurn>> ELSE h

\* Lines 184-185: start_chat(history=history_list), then send_message_async
\* (prompt): the model is sent the history followed by the new user turn.
ContextSent(h, n) == Append(history_list(h), UserMsg(n))

\* configure_next_key drawing twice from the cycler (a call of _get_next_key,
\* lines 59-63, before line 46): the key in between is skipped.
configure_next_key_SkipsOne ==
    /\ activeKey' = (cyclerNext % nKeys) + 1
    /\ cyclerNext' = (((cyclerNext % nKeys) + 1) % nKeys) + 1
    /\ UNCHANGED nKeys

\* Lines 40-52, with a cycler over nKeys keys.
configure_next_key ==
    /\ activeKey' = cyclerNext
    /\ cyclerNext' = (cyclerNext % nKeys) + 1
    /\ UNCHANGED nKeys

\* CacheAfterSave with the two appends of lines 128-129 in the other order.
CacheAfterSave_ReplyFirst(c, n) ==
    LET w0 == IF InCache(c) THEN cacheWin[c] ELSE <<>>
    IN  DequeAppend(DequeAppend(w0, ModelMsg(n)), UserMsg(n))

\* CacheAfterSave with the instruction turns inserted into the deque itself
\* (history_list = history, no copy at line 171).
CacheAfterSave_KeepsInstruction(c, n) ==
    LET w0 == history_list(IF InCache(c) THEN cacheWin[c] ELSE <<>>)
    IN  DequeAppend(DequeAppend(w0, UserMsg(n)), ModelMsg(n))

\* Lines 125-129: the cache half of _save_history.
CacheAfterSave(c, n) ==
    LET w0 == IF InCache(c) THEN cacheWin[c] ELSE <<>>
    IN  DequeAppend(DequeAppend(w0, UserMsg(n)), ModelMsg(n))

\* ------------------------------------------------------------------ Init
\* The table outlives the process: channel 1 may hold an exchange (number 0)
\* written by an earlier run.  AIHandler.__init__ configures the first key.
PriorHistories == { <<>>, <<UserMsg(0), ModelMsg(0)>> }

InitHandler ==
    /\ nKeys \in KeyCounts
    /\ cyclerNext = (IF nKeys = 0 THEN 0 ELSE (1 % nKeys) + 1)
    /\ activeKey = (IF nKeys = 0 THEN 0 ELSE 1)
    /\ botUserId = FALSE
    /\ cacheOrder = <<>>
    /\ cacheWin = [c \in Channels |-> <<>>]
    /\ \E h \in PriorHistories : store = [c \in Channels |-> IF c = 1 THEN h ELSE <<>>]
    /\ nCalls = 0
    /\ pc = [t \in Tasks |-> "idle"]
    /\ chan = [t \in Tasks |-> 1]
    /\ prompt = [t \in Tasks |-> 0]
    /\ getOutcome = [t \in Tasks |-> "none"]
    /\ history = [t \in Tasks |-> <<>>]
    /\ attempt = [t \in Tasks |-> 0]
    /\ result = [t \in Tasks |-> NoResult]
    /\ nAttempts = [t \in Tasks |-> 0]
    /\ nRot = [t \in Tasks |-> 0]
    /\ keysUsed = [t \in Tasks |-> <<>>]
    /\ readFailed = [t \in Tasks |-> FALSE]
    /\ writeFailed = [t \in Tasks |-> FALSE]

\* AlfredBot.__init__ (bot.py:37-41); no on_ready event has been delivered.
InitBot ==
    /\ botHandlerUserId = FALSE
    /\ is_setup_complete = FALSE
    /\ readyPc = [r \in Readies |-> "idle"]
    /\ setupsEntered = 0
    /\ apiTasks = 0

\* ---------------------------------------------- api_server.py: requests
\* The words an Authorization header is made of: auth types and tokens.
AuthTypes == {"Bearer", "bearer", "Basic"}
Tokens == {"tokA", "tokB", "tokX"}
Words == AuthTypes \cup Tokens

\* The values ALLOWED_INTEGRATION_TOKENS can have (config.py:40, 73-89).
TokenConfigs == { {}, {"tokA"}, {"tokA", "tokB"} }

\* request.headers.get('Authorization'): None, the empty string, or a
\* non-empty string, given by the list that split() makes of it (no words
\* for a string of whitespace).
WordSeqs == UNION { [1..n -> Words] : n \in 0..MaxHeaderWords }
AbsentHeader == [given |-> FALSE, empty |-> TRUE, words |-> <<>>]
EmptyHeader == [given |-> TRUE, empty |-> TRUE, words |-> <<>>]
Headers ==
    {AbsentHeader, EmptyHeader}
        \cup { [given |-> TRUE, empty |-> FALSE, words |-> ws] : ws \in WordSeqs }

\* What request.get_json() meets: a body that is no JSON (or has no JSON
\* content type), null, an object or a list.  keys are the keys of the object
\* or the strings in the list; uid is the value under 'user_id'.
PayloadKeys == {"user_id", "language_code"}
UidValues == {"digits", "letters", "null"}
Payloads ==
    { [kind |-> k, keys |-> {}, uid |-> "null"] : k \in {"invalid", "null"} }
        \cup { [kind |-> "list", keys |-> ks, uid |-> "null"] : ks \in SUBSET PayloadKeys }
        \cup { [kind |-> "object", keys |-> ks, uid |-> u] :
                   ks \in SUBSET PayloadKeys, u \in UidValues }

NoRequest == [header |-> AbsentHeader, payload |-> [kind |-> "null", keys |-> {}, uid |-> "null"]]

\* api_server.py and config.py at import: no request yet; without the
\* environment variable the token dict is empty (config.py:40, 75-78).
InitWeb ==
    /\ nRequests = 0
    /\ webRequest = NoRequest
    /\ webStatus = 0
    /\ tasksScheduled = 0

\* The callers are those of the repository: onboarding.py passes
\* system_instruction, and nothing outside the handler calls
\* configure_next_key.
Init ==
    /\ InitHandler
    /\ InitBot
    /\ InitWeb
    /\ allowedTokens = {}
    /\ instructionSupplied = TRUE
    /\ rotateReturned = <<>>

\* Any caller of the handler's methods: system_instruction passed or left to
\* its default.
InitAnyCaller ==
    /\ InitHandler
    /\ InitBot
    /\ InitWeb
    /\ allowedTokens = {}
    /\ instructionSupplied \in BOOLEAN
    /\ rotateReturned = <<>>

\* Any configuration of integration tokens.
InitWebhook ==
    /\ InitHandler
    /\ InitBot
    /\ InitWeb
    /\ allowedTokens \in TokenConfigs
    /\ instructionSupplied = TRUE
    /\ rotateReturned = <<>>

\* --------------------------------------------------------------- actions
\* Lines 54-57: set_bot_user_id is called on this handler instance.
set_bot_user_id ==
    /\ ~botUserId
    /\ botUserId' = TRUE
    /\ UNCHANGED <<poolVars, cacheOrder, cacheWin, store, nCalls, pc, taskLocals>>
    /\ UNCHANGED <<callerVars, botVars, webVars>>

\* Nothing in the state refers to channel c.
Untouched(c) ==
    /\ ~InCache(c)
    /\ store[c] = <<>>
    /\ \A t \in Tasks : pc[t] # "idle" => chan[t] # c

\* A call begins: the task's locals are fresh.  Coroutines have no identity
\* of their own, so a new call takes the lowest free slot; channel ids are
\* opaque, so a call on a channel nothing refers to takes the lowest such id
\* (channel 1, which may have rows from an earlier run, is always allowed).
Enter(t, c) ==
    /\ pc[t] = "idle"
    /\ \A u \in Tasks : u < t => pc[u] # "idle"
    /\ (c > 1 /\ Untouched(c)) => \A d \in Channels : (1 < d /\ d < c) => ~Untouched(d)
    /\ nCalls < MaxCalls
    /\ nCalls' = nCalls + 1
    /\ chan' = [chan EXCEPT ![t] = c]
    /\ prompt' = [prompt EXCEPT ![t] = nCalls + 1]
    /\ attempt' = [attempt EXCEPT ![t] = 0]
    /\ nRot' = [nRot EXCEPT ![t] = 0]
    /\ readFailed' = [readFailed EXCEPT ![t] = FALSE]
    /\ writeFailed' = [writeFailed EXCEPT ![t] = FALSE]

\* _get_history has returned h (lines 88, 118).  Lines 171-185 for the first
\* attempt: the model call is sent.
SendFirst(t, h) ==
    /\ getOutcome' = [getOutcome EXCEPT ![t] = "returned"]
    /\ history' = [history EXCEPT ![t] = h]
    /\ nAttempts' = [nAttempts EXCEPT ![t] = 1]
    /\ keysUsed' = [keysUsed EXCEPT ![t] = <<activeKey>>]
    /\ pc' = [pc EXCEPT ![t] = "calling"]

\* The gate reading a bot id that any handler instance was given (bot_user_id
\* as a module-level name instead of an attribute of self).
Gated_AnyInstance == cyclerNext = 0 \/ ~(botUserId \/ botHandlerUserId)

\* The gate with the key check left out (if not self.bot_user_id).
Gated_IgnoresKeys == ~botUserId

\* Line 161: not self._key_cycler or not self.bot_user_id.
Gated == cyclerNext = 0 \/ ~botUserId

\* Lines 161-162: no key cycler or no bot user id.
StartGated(t, c) ==
    /\ Enter(t, c)
    /\ Gated
    /\ pc' = [pc EXCEPT ![t] = "done"]
    /\ result' = [result EXCEPT ![t] = UNABLE_TO_CONNECT]
    /\ getOutcome' = [getOutcome EXCEPT ![t] = "none"]
    /\ history' = [history EXCEPT ![t] = <<>>]
    /\ nAttempts' = [nAttempts EXCEPT ![t] = 0]
    /\ keysUsed' = [keysUsed EXCEPT ![t] = <<>>]
    /\ UNCHANGED <<poolVars, botUserId, cacheOrder, cacheWin, store>>
    /\ UNCHANGED <<callerVars, botVars, webVars>>

\* Lines 86-88, then 171-185: a cache hit does not suspend.
StartHit(t, c) ==
    /\ Enter(t, c)
    /\ ~Gated
    /\ InCache(c)
    /\ SendFirst(t, cacheWin[c])
    /\ result' = [result EXCEPT ![t] = NoResult]
    /\ UNCHANGED <<poolVars, botUserId, cacheOrder, cacheWin, store>>
    /\ UNCHANGED <<callerVars, botVars, webVars>>

\* Lines 91-102: a cache miss; the SELECT is sent.
StartMiss(t, c) ==
    /\ Enter(t, c)
    /\ ~Gated
    /\ ~InCache(c)
    /\ pc' = [pc EXCEPT ![t] = "fetching"]
    /\ getOutcome' = [getOutcome EXCEPT ![t] = "none"]
    /\ history' = [history EXCEPT ![t] = <<>>]
    /\ nAttempts' = [nAttempts EXCEPT ![t] = 0]
    /\ keysUsed' = [keysUsed EXCEPT ![t] = <<>>]
    /\ result' = [result EXCEPT ![t] = NoResult]
    /\ UNCHANGED <<poolVars, botUserId, cacheOrder, cacheWin, store>>
    /\ UNCHANGED <<callerVars, botVars, webVars>>

\* Lines 102-107: the database answers the SELECT from the rows committed
\* so far; the deque is filled and the session is being closed.
FetchQueryOk(t) ==
    /\ pc[t] = "fetching"
    /\ \E h \in FetchRecent(store[chan[t]]) : history' = [history EXCEPT ![t] = h]
    /\ pc' = [pc EXCEPT ![t] = "fetched"]
    /\ UNCHANGED <<poolVars, botUserId, cacheOrder, cacheWin, store, nCalls,
                   chan, prompt, getOutcome, attempt, result, nAttempts, nRot,
                   keysUsed, readFailed, writeFailed>>
    /\ UNCHANGED <<callerVars, botVars, webVars>>

\* Lines 102, 115-118: the SELECT raises; the except clause logs it and the
\* empty deque is returned.  Then lines 171-185.
FetchQueryFail(t) ==
    /\ pc[t] = "fetching"
    /\ readFailed' = [readFailed EXCEPT ![t] = TRUE]
    /\ SendFirst(t, <<>>)
    /\ UNCHANGED <<poolVars, botUserId, cacheOrder, cacheWin, store, nCalls,
                   chan, prompt, attempt, result, nRot, writeFailed>>
    /\ UNCHANGED <<callerVars, botVars, webVars>>

\* FetchInstall with CONVERSATION_CACHE an OrderedDict: popitem(last=False)
\* removes the oldest key before the insert.
FetchInstall_EvictsOldest(t) ==
    /\ pc[t] = "fetched"
    /\ LET kept == IF Len(cacheOrder) > CACHE_MAX_SIZE THEN Tail(cacheOrder)
                   ELSE cacheOrder
           has == \E i \in 1..Len(kept) : kept[i] = chan[t]
       IN  /\ cacheOrder' = IF has THEN kept ELSE Append(kept, chan[t])
           /\ cacheWin' = [c \in Channels |->
                             IF c = chan[t] THEN history[t]
                             ELSE IF \E i \in 1..Len(kept) : kept[i] = c
                                  THEN cacheWin[c] ELSE <<>>]
    /\ SendFirst(t, history[t])
    /\ UNCHANGED <<poolVars, botUserId, store, nCalls, chan, prompt, attempt,
                   result, nRot, readFailed, writeFailed>>
    /\ UNCHANGED <<callerVars, botVars, webVars>>

\* Lines 110-118: CONVERSATION_CACHE is a plain dict, so with more than
\* CACHE_MAX_SIZE keys popitem(last=False) raises TypeError, which the except
\* clause logs: nothing is evicted and the deque is not stored.  Otherwise the
\* deque is stored under the channel id, replacing what is there.
\* Then lines 171-185.
FetchInstall(t) ==
    /\ pc[t] = "fetched"
    /\ IF Len(cacheOrder) > CACHE_MAX_SIZE
       THEN UNCHANGED <<cacheOrder, cacheWin>>
       ELSE /\ cacheOrder' = IF InCache(chan[t]) THEN cacheOrder
                             ELSE Append(cacheOrder, chan[t])
            /\ cacheWin' = [cacheWin EXCEPT ![chan[t]] = history[t]]
    /\ SendFirst(t, history[t])
    /\ UNCHANGED <<poolVars, botUserId, store, nCalls, chan, prompt, attempt,
                   result, nRot, readFailed, writeFailed>>
    /\ UNCHANGED <<callerVars, botVars, webVars>>

\* Lines 185-190 and 125-143: the model answers; the exchange is appended to
\* the cached deque (created if absent) and the commit is sent.
ModelOk(t) ==
    /\ pc[t] = "calling"
    /\ cacheOrder' = IF InCache(chan[t]) THEN cacheOrder
                     ELSE Append(cacheOrder, chan[t])
    /\ cacheWin' = [cacheWin EXCEPT ![chan[t]] = CacheAfterSave(chan[t], prompt[t])]
    /\ pc' = [pc EXCEPT ![t] = "saving"]
    /\ UNCHANGED <<poolVars, botUserId, store, nCalls, taskLocals>>
    /\ UNCHANGED <<callerVars, botVars, webVars>>

\* ModelFail with the prompt put into the cached deque when the last attempt
\* fails (the cache updated before the model has answered).
ModelFail_SavesPrompt(t, e) ==
    /\ pc[t] = "calling"
    /\ IF attempt[t] < nKeys - 1
       THEN /\ configure_next_key
            /\ nRot' = [nRot EXCEPT ![t] = @ + 1]
            /\ pc' = [pc EXCEPT ![t] = "sleeping"]
            /\ UNCHANGED <<result, cacheOrder, cacheWin>>
       ELSE /\ pc' = [pc EXCEPT ![t] = "done"]
            /\ result' = [result EXCEPT ![t] = HIGH_TRAFFIC]
            /\ cacheOrder' = IF InCache(chan[t]) THEN cacheOrder
                             ELSE Append(cacheOrder, chan[t])
            /\ cacheWin' = [cacheWin EXCEPT ![chan[t]] =
                                DequeAppend(IF InCache(chan[t]) THEN @ ELSE <<>>,
                                            UserMsg(prompt[t]))]
            /\ UNCHANGED <<poolVars, nRot>>
    /\ UNCHANGED <<botUserId, store, nCalls, chan, prompt,
                   getOutcome, history, attempt, nAttempts, keysUsed, readFailed,
                   writeFailed>>
    /\ UNCHANGED <<callerVars, botVars, webVars>>

\* ModelFail with a loop that never gives up (while True instead of
\* range(max_retries)).
ModelFail_RetriesForever(t, e) ==
    /\ pc[t] = "calling"
    /\ configure_next_key
    /\ nRot' = [nRot EXCEPT ![t] = IF @ < MaxKeys THEN @ + 1 ELSE @]
    /\ pc' = [pc EXCEPT ![t] = "sleeping"]
    /\ UNCHANGED <<botUserId, cacheOrder, cacheWin, store, nCalls, chan, prompt,
                   getOutcome, history, attempt, result, nAttempts, keysUsed,
                   readFailed, writeFailed>>
    /\ UNCHANGED <<callerVars, botVars, webVars>>

\* ModelFail with the retry loop one attempt short (attempt < max_retries - 2).
ModelFail_GivesUpEarly(t, e) ==
    /\ pc[t] = "calling"
    /\ IF attempt[t] < nKeys - 2
       THEN /\ configure_next_key
            /\ nRot' = [nRot EXCEPT ![t] = @ + 1]
            /\ pc' = [pc EXCEPT ![t] = "sleeping"]
            /\ UNCHANGED result
       ELSE /\ pc' = [pc EXCEPT ![t] = "done"]
            /\ result' = [result EXCEPT ![t] = HIGH_TRAFFIC]
            /\ UNCHANGED <<poolVars, nRot>>
    /\ UNCHANGED <<botUserId, cacheOrder, cacheWin, store, nCalls, chan, prompt,
                   getOutcome, history, attempt, nAttempts, keysUsed, readFailed,
                   writeFailed>>
    /\ UNCHANGED <<callerVars, botVars, webVars>>

\* ModelFail with the last failure's text handed to the caller (return str(e)).
ModelFail_ReturnsError(t, e) ==
    /\ pc[t] = "calling"
    /\ IF attempt[t] < nKeys - 1
       THEN /\ configure_next_key
            /\ nRot' = [nRot EXCEPT ![t] = @ + 1]
            /\ pc' = [pc EXCEPT ![t] = "sleeping"]
            /\ UNCHANGED result
       ELSE /\ pc' = [pc EXCEPT ![t] = "done"]
            /\ result' = [result EXCEPT ![t] = <<e, 0>>]
            /\ UNCHANGED <<poolVars, nRot>>
    /\ UNCHANGED <<botUserId, cacheOrder, cacheWin, store, nCalls, chan, prompt,
                   getOutcome, history, attempt, nAttempts, keysUsed, readFailed,
                   writeFailed>>
    /\ UNCHANGED <<callerVars, botVars, webVars>>

\* Lines 194-202: the model call raises e.
ModelFail(t, e) ==
    /\ pc[t] = "calling"
    /\ IF attempt[t] < nKeys - 1
       THEN /\ configure_next_key
            /\ nRot' = [nRot EXCEPT ![t] = @ + 1]
            /\ pc' = [pc EXCEPT ![t] = "sleeping"]
            /\ UNCHANGED result
       ELSE /\ pc' = [pc EXCEPT ![t] = "done"]
            /\ result' = [result EXCEPT ![t] = HIGH_TRAFFIC]
            /\ UNCHANGED <<poolVars, nRot>>
    /\ UNCHANGED <<botUserId, cacheOrder, cacheWin, store, nCalls, chan, prompt,
                   getOutcome, history, attempt, nAttempts, keysUsed, readFailed,
                   writeFailed>>
    /\ UNCHANGED <<callerVars, botVars, webVars>>

\* Lines 199, 180-185: the sleep ends; the next attempt is sent.
Wake(t) ==
    /\ pc[t] = "sleeping"
    /\ attempt' = [attempt EXCEPT ![t] = @ + 1]
    /\ nAttempts' = [nAttempts EXCEPT ![t] = @ + 1]
    /\ keysUsed' = [keysUsed EXCEPT ![t] = Append(@, activeKey)]
    /\ pc' = [pc EXCEPT ![t] = "calling"]
    /\ UNCHANGED <<poolVars, botUserId, cacheOrder, cacheWin, store, nCalls,
                   chan, prompt, getOutcome, history, result, nRot, readFailed,
                   writeFailed>>
    /\ UNCHANGED <<callerVars, botVars, webVars>>

\* Lines 142-144, 192: both rows are committed in one transaction.
CommitOk(t) ==
    /\ pc[t] = "saving"
    /\ store' = [store EXCEPT ![chan[t]] = @ \o <<UserMsg(prompt[t]), ModelMsg(prompt[t])>>]
    /\ pc' = [pc EXCEPT ![t] = "done"]
    /\ result' = [result EXCEPT ![t] = ResponseText(prompt[t])]
    /\ UNCHANGED <<poolVars, botUserId, cacheOrder, cacheWin, nCalls, chan,
                   prompt, getOutcome, history, attempt, nAttempts, nRot,
                   keysUsed, readFailed, writeFailed>>
    /\ UNCHANGED <<callerVars, botVars, webVars>>

\* CommitFail with the two rows committed one by one: the prompt's row is in
\* the table when the reply's commit raises.
CommitFail_HalfWritten(t) ==
    /\ pc[t] = "saving"
    /\ store' = [store EXCEPT ![chan[t]] = Append(@, UserMsg(prompt[t]))]
    /\ writeFailed' = [writeFailed EXCEPT ![t] = TRUE]
    /\ pc' = [pc EXCEPT ![t] = "done"]
    /\ result' = [result EXCEPT ![t] = ResponseText(prompt[t])]
    /\ UNCHANGED <<poolVars, botUserId, cacheOrder, cacheWin, nCalls,
                   chan, prompt, getOutcome, history, attempt, nAttempts, nRot,
                   keysUsed, readFailed>>
    /\ UNCHANGED <<callerVars, botVars, webVars>>

\* CommitFail without the except clause of line 145: the commit's exception
\* reaches line 194 on the last attempt and the reply is dropped.
CommitFail_Discards(t) ==
    /\ pc[t] = "saving"
    /\ writeFailed' = [writeFailed EXCEPT ![t] = TRUE]
    /\ pc' = [pc EXCEPT ![t] = "done"]
    /\ result' = [result EXCEPT ![t] = HIGH_TRAFFIC]
    /\ UNCHANGED <<poolVars, botUserId, cacheOrder, cacheWin, store, nCalls,
                   chan, prompt, getOutcome, history, attempt, nAttempts, nRot,
                   keysUsed, readFailed>>
    /\ UNCHANGED <<callerVars, botVars, webVars>>

\* Lines 143-146, 192: the commit raises; it is logged, nothing is written.
CommitFail(t) ==
    /\ pc[t] = "saving"
    /\ writeFailed' = [writeFailed EXCEPT ![t] = TRUE]
    /\ pc' = [pc EXCEPT ![t] = "done"]
    /\ result' = [result EXCEPT ![t] = ResponseText(prompt[t])]
    /\ UNCHANGED <<poolVars, botUserId, cacheOrder, cacheWin, store, nCalls,
                   chan, prompt, getOutcome, history, attempt, nAttempts, nRot,
                   keysUsed, readFailed>>
    /\ UNCHANGED <<callerVars, botVars, webVars>>

\* The caller has the result and the coroutine's frame is gone; the task can
\* make another call.
Return(t) ==
    /\ pc[t] = "done"
    /\ pc' = [pc EXCEPT ![t] = "idle"]
    /\ chan' = [chan EXCEPT ![t] = 1]
    /\ prompt' = [prompt EXCEPT ![t] = 0]
    /\ getOutcome' = [getOutcome EXCEPT ![t] = "none"]
    /\ history' = [history EXCEPT ![t] = <<>>]
    /\ attempt' = [attempt EXCEPT ![t] = 0]
    /\ result' = [result EXCEPT ![t] = NoResult]
    /\ nAttempts' = [nAttempts EXCEPT ![t] = 0]
    /\ nRot' = [nRot EXCEPT ![t] = 0]
    /\ keysUsed' = [keysUsed EXCEPT ![t] = <<>>]
    /\ readFailed' = [readFailed EXCEPT ![t] = FALSE]
    /\ writeFailed' = [writeFailed EXCEPT ![t] = FALSE]
    /\ UNCHANGED <<poolVars, botUserId, cacheOrder, cacheWin, store, nCalls>>
    /\ UNCHANGED <<callerVars, botVars, webVars>>

Next ==
    \/ set_bot_user_id
    \/ \E t \in Tasks, c \in Channels : StartGated(t, c)
    \/ \E t \in Tasks, c \in Channels : StartHit(t, c)
    \/ \E t \in Tasks, c \in Channels : StartMiss(t, c)
    \/ \E t \in Tasks : FetchQueryOk(t)
    \/ \E t \in Tasks : FetchQueryFail(t)
    \/ \E t \in Tasks : FetchInstall(t)
    \/ \E t \in Tasks : ModelOk(t)
    \/ \E t \in Tasks, e \in ProviderErrors : ModelFail(t, e)
    \/ \E t \in Tasks : Wake(t)
    \/ \E t \in Tasks : CommitOk(t)
    \/ \E t \in Tasks : CommitFail(t)
    \/ \E t \in Tasks : Return(t)

Spec == Init /\ [][Next]_vars

\* The same program with a database that never raises: what remains is the
\* interleaving of the coroutines alone.
NextReliableStore ==
    \/ set_bot_user_id
    \/ \E t \in Tasks, c \in Channels : StartGated(t, c)
    \/ \E t \in Tasks, c \in Channels : StartHit(t, c)
    \/ \E t \in Tasks, c \in Channels : StartMiss(t, c)
    \/ \E t \in Tasks : FetchQueryOk(t)
    \/ \E t \in Tasks : FetchInstall(t)
    \/ \E t \in Tasks : ModelOk(t)
    \/ \E t \in Tasks, e \in ProviderErrors : ModelFail(t, e)
    \/ \E t \in Tasks : Wake(t)
    \/ \E t \in Tasks : CommitOk(t)
    \/ \E t \in Tasks : Return(t)

SpecReliableStore == Init /\ [][NextReliableStore]_vars

\* A suspended call of task t is resumed: its SELECT, session close, model
\* call, sleep or commit returns, with success or with an exception.
Resume(t) ==
    \/ FetchQueryOk(t)
    \/ FetchQueryFail(t)
    \/ FetchInstall(t)
    \/ ModelOk(t)
    \/ \E e \in ProviderErrors : ModelFail(t, e)
    \/ Wake(t)
    \/ CommitOk(t)
    \/ CommitFail(t)

\* The channel all calls of NextOneChannel are made on: the one that may have
\* rows from an earlier run.
BusyChannel == 1

\* Every call is made on one channel, where concurrent calls meet in the
\* cache and in the table; the database may raise.
NextOneChannel ==
    \/ set_bot_user_id
    \/ \E t \in Tasks : StartGated(t, BusyChannel)
    \/ \E t \in Tasks : StartHit(t, BusyChannel)
    \/ \E t \in Tasks : StartMiss(t, BusyChannel)
    \/ \E t \in Tasks : Resume(t)
    \/ \E t \in Tasks : Return(t)

\* That program with an event loop that resumes every coroutine whose awaited
\* call has returned, and awaited calls that all return.
SpecFair == Init /\ [][NextOneChannel]_vars /\ \A t \in Tasks : WF_vars(Resume(t))

\* No call has been made that has not returned.
NoCallRunning == \A t \in Tasks : pc[t] = "idle"

\* Callers that make one call at a time (each awaits the result before the
\* next call), with a database that never raises.
NextSequential ==
    \/ set_bot_user_id
    \/ \E t \in Tasks, c \in Channels : NoCallRunning /\ StartGated(t, c)
    \/ \E t \in Tasks, c \in Channels : NoCallRunning /\ StartHit(t, c)
    \/ \E t \in Tasks, c \in Channels : NoCallRunning /\ StartMiss(t, c)
    \/ \E t \in Tasks : FetchQueryOk(t)
    \/ \E t \in Tasks : FetchInstall(t)
    \/ \E t \in Tasks : ModelOk(t)
    \/ \E t \in Tasks, e \in ProviderErrors : ModelFail(t, e)
    \/ \E t \in Tasks : Wake(t)
    \/ \E t \in Tasks : CommitOk(t)
    \/ \E t \in Tasks : Return(t)

SpecSequential == Init /\ [][NextSequential]_vars

\* Lines 40-49, called by a client of the handler: without a cycler False is
\* returned; otherwise the next key is configured and True is returned.
rotate ==
    /\ IF cyclerNext = 0
       THEN /\ rotateReturned' = <<FALSE>>
            /\ UNCHANGED poolVars
       ELSE /\ configure_next_key
            /\ rotateReturned' = <<TRUE>>
    /\ UNCHANGED <<botUserId, cacheOrder, cacheWin, store, nCalls, pc, taskLocals,
                   instructionSupplied, botVars>>
    /\ UNCHANGED webVars

\* The handler's methods called one at a time by any client: with or without
\* system_instruction, and configure_next_key called directly.
NextAnyCaller ==
    \/ set_bot_user_id
    \/ rotate
    \/ \E t \in Tasks, c \in Channels : NoCallRunning /\ StartGated(t, c)
    \/ \E t \in Tasks, c \in Channels : NoCallRunning /\ StartHit(t, c)
    \/ \E t \in Tasks, c \in Channels : NoCallRunning /\ StartMiss(t, c)
    \/ \E t \in Tasks : FetchQueryOk(t)
    \/ \E t \in Tasks : FetchInstall(t)
    \/ \E t \in Tasks : ModelOk(t)
    \/ \E t \in Tasks, e \in ProviderErrors : ModelFail(t, e)
    \/ \E t \in Tasks : Wake(t)
    \/ \E t \in Tasks : CommitOk(t)
    \/ \E t \in Tasks : Return(t)

SpecAnyCaller == InitAnyCaller /\ [][NextAnyCaller]_vars

\* ------------------------------------------------------ bot.py: on_ready
\* on_ready coroutines may be suspended at the await of line 78
\* (db_manager.initialize) and at the await of line 100 (tree.sync).
\* bot.py:56-78: an on_ready event is delivered (the library runs each event
\* in a task of its own; events take the lowest free slot).  Line 62 gives
\* the bot's own handler instance the id; with the flag unset the setup block
\* is entered, the API server task is created and initialize() is awaited.
on_ready(r) ==
    /\ readyPc[r] = "idle"
    /\ \A q \in Readies : q < r => readyPc[q] # "idle"
    /\ botHandlerUserId' = TRUE
    /\ IF is_setup_complete
       THEN /\ readyPc' = [readyPc EXCEPT ![r] = "finished"]
            /\ UNCHANGED <<setupsEntered, apiTasks>>
       ELSE /\ readyPc' = [readyPc EXCEPT ![r] = "initialize"]
            /\ setupsEntered' = setupsEntered + 1
            /\ apiTasks' = apiTasks + 1
    /\ UNCHANGED <<poolVars, botUserId, cacheOrder, cacheWin, store, nCalls, pc,
                   taskLocals, callerVars, is_setup_complete>>
    /\ UNCHANGED webVars

\* bot.py:78-100: initialize() returns; the cogs are loaded (no await) and
\* tree.sync is awaited.
InitializeOk(r) ==
    /\ readyPc[r] = "initialize"
    /\ readyPc' = [readyPc EXCEPT ![r] = "sync"]
    /\ UNCHANGED <<poolVars, botUserId, cacheOrder, cacheWin, store, nCalls, pc,
                   taskLocals, callerVars, botHandlerUserId, is_setup_complete,
                   setupsEntered, apiTasks>>
    /\ UNCHANGED webVars

\* bot.py:78: initialize() raises; nothing in on_ready catches it, so the
\* coroutine ends with the flag as it was.
InitializeFail(r) ==
    /\ readyPc[r] = "initialize"
    /\ readyPc' = [readyPc EXCEPT ![r] = "failed"]
    /\ UNCHANGED <<poolVars, botUserId, cacheOrder, cacheWin, store, nCalls, pc,
                   taskLocals, callerVars, botHandlerUserId, is_setup_complete,
                   setupsEntered, apiTasks>>
    /\ UNCHANGED webVars

\* bot.py:100-110: tree.sync returns or raises (caught at line 106); line 109
\* sets the flag.
SyncReturns(r) ==
    /\ readyPc[r] = "sync"
    /\ readyPc' = [readyPc EXCEPT ![r] = "finished"]
    /\ is_setup_complete' = TRUE
    /\ UNCHANGED <<poolVars, botUserId, cacheOrder, cacheWin, store, nCalls, pc,
                   taskLocals, callerVars, botHandlerUserId, setupsEntered,
                   apiTasks>>
    /\ UNCHANGED webVars

\* The bot receiving on_ready events while the cogs call the module's global
\* handler (onboarding.py:10, 170), one call at a time.
NextBot ==
    \/ \E r \in Readies : on_ready(r)
    \/ \E r \in Readies : InitializeOk(r)
    \/ \E r \in Readies : InitializeFail(r)
    \/ \E r \in Readies : SyncReturns(r)
    \/ set_bot_user_id
    \/ \E t \in Tasks, c \in Channels : NoCallRunning /\ StartGated(t, c)
    \/ \E t \in Tasks, c \in Channels : NoCallRunning /\ StartHit(t, c)
    \/ \E t \in Tasks, c \in Channels : NoCallRunning /\ StartMiss(t, c)
    \/ \E t \in Tasks : FetchQueryOk(t)
    \/ \E t \in Tasks : FetchInstall(t)
    \/ \E t \in Tasks : ModelOk(t)
    \/ \E t \in Tasks, e \in ProviderErrors : ModelFail(t, e)
    \/ \E t \in Tasks : Wake(t)
    \/ \E t \in Tasks : CommitOk(t)
    \/ \E t \in Tasks : Return(t)

SpecBot == Init /\ [][NextBot]_vars

\* ------------------------------------------- api_server.py: the webhook
\* str.lower() on the words of the model.
Lower(w) == IF w = "Bearer" THEN "bearer" ELSE IF w = "Basic" THEN "basic" ELSE w

\* require_auth with the token never compared (lines 36-38 left out).
require_auth_AnyToken(h) ==
    IF ~h.given \/ h.empty THEN 401
    ELSE IF Len(h.words) # 2 THEN 400
    ELSE IF Lower(h.words[1]) # "bearer" THEN 400
    ELSE 0

\* Lines 22-41: the status require_auth answers with, or 0 when it calls the
\* route.  A header that is None or '' is "missing"; split() must give two
\* words (the unpacking raises ValueError otherwise) and the first, in lower
\* case, must be 'bearer'; the second must be among the allowed tokens.
require_auth(h) ==
    IF ~h.given \/ h.empty THEN 401
    ELSE IF Len(h.words) # 2 THEN 400
    ELSE IF Lower(h.words[1]) # "bearer" THEN 400
    ELSE IF h.words[2] \notin allowedTokens THEN 403
    ELSE 0

\* int(data['user_id']) returns (line 72): digits parse; other text raises
\* ValueError and None raises TypeError.
IntParses(u) == u = "digits"

\* Lines 62-105: the outcomes <<status, task scheduled>> of the route.
\* get_json() may answer a body that is no JSON with an error response of the
\* framework; an empty or null payload, a missing key, a list (indexing it
\* by a string raises TypeError) and a user_id that is no integer give 400;
\* a missing cog or a failing run_coroutine_threadsafe gives 500.
RouteOutcomes(p, cogLoaded, loopRuns) ==
    IF p.kind = "invalid" THEN { <<400, FALSE>>, <<415, FALSE>> }
    ELSE IF p.kind = "null" \/ p.keys = {} THEN { <<400, FALSE>> }
    ELSE IF ~(PayloadKeys \subseteq p.keys) THEN { <<400, FALSE>> }
    ELSE IF p.kind = "list" \/ ~IntParses(p.uid) THEN { <<400, FALSE>> }
    ELSE IF ~cogLoaded \/ ~loopRuns THEN { <<500, FALSE>> }
    ELSE { <<202, TRUE>> }

\* The server has a POST to /v1/onboarding/language_set to handle: flask's
\* request object holds its header and its body.
ReceiveRequest ==
    /\ nRequests < MaxRequests
    /\ webRequest = NoRequest
    /\ \E h \in Headers, p \in Payloads :
           /\ [header |-> h, payload |-> p] # NoRequest
           /\ webRequest' = [header |-> h, payload |-> p]
    /\ nRequests' = nRequests + 1
    /\ webStatus' = 0
    /\ UNCHANGED <<poolVars, botUserId, cacheOrder, cacheWin, store, nCalls, pc,
                   taskLocals, callerVars, botVars, allowedTokens, tasksScheduled>>

\* Lines 55-57: the view function runs; require_auth answers the request or
\* passes it to the route.  The request object is gone with the response.
language_set_webhook(cogLoaded, loopRuns) ==
    /\ webRequest # NoRequest
    /\ \E out \in (IF require_auth(webRequest.header) # 0
                   THEN { <<require_auth(webRequest.header), FALSE>> }
                   ELSE RouteOutcomes(webRequest.payload, cogLoaded, loopRuns)) :
           /\ webStatus' = out[1]
           /\ tasksScheduled' = tasksScheduled + (IF out[2] THEN 1 ELSE 0)
    /\ webRequest' = NoRequest
    /\ UNCHANGED <<poolVars, botUserId, cacheOrder, cacheWin, store, nCalls, pc,
                   taskLocals, callerVars, botVars, allowedTokens, nRequests>>

NextWebhook ==
    \/ ReceiveRequest
    \/ \E cogLoaded \in BOOLEAN, loopRuns \in BOOLEAN :
           language_set_webhook(cogLoaded, loopRuns)

SpecWebhook == InitWebhook /\ [][NextWebhook]_vars

\* ================================================================ claims
Range(s) == { s[i] : i \in 1..Len(s) }

\* A call that passed the gate of line 161, made its model calls, got no
\* reply from any of them and has returned.
AllFailed(t) ==
    /\ pc[t] = "done"
    /\ result[t] # UNABLE_TO_CONNECT
    /\ result[t] # ResponseText(prompt[t])

\* A call is between reading its context window and the end of its write-back.
InFlight(t) == pc[t] \in {"fetching", "fetched", "calling", "sleeping", "saving"}

\* No call is in flight.
Quiescent == \A t \in Tasks : ~InFlight(t)

\* Channel c's table holds both rows of exchange n.
Committed(c, n) == UserMsg(n) \in Range(store[c]) /\ ModelMsg(n) \in Range(store[c])

\* The exchange numbers a channel's table can hold.
ExchangeIds == 0..MaxCalls

\* C1. Retry bound: a call whose model calls all failed made exactly nKeys
\* attempts, rotated the keys exactly nKeys - 1 times and returned the
\* fallback string.
C1_RetryBound ==
    \A t \in Tasks :
        AllFailed(t) =>
            /\ nAttempts[t] = nKeys
            /\ nRot[t] = nKeys - 1
            /\ result[t] = HIGH_TRAFFIC

\* C1 witness: with two or more keys, a call has failed on all of them.
C1_Witness ==
    \E t \in Tasks : AllFailed(t) /\ nKeys >= 2 /\ nAttempts[t] = nKeys /\ nRot[t] >= 1

\* C2. Cache capacity: the cache never holds more than CACHE_MAX_SIZE
\* conversations.
C2_CacheCapacity == Len(cacheOrder) <= CACHE_MAX_SIZE

\* C3. Per-conversation mutual exclusion: no two calls on the same channel
\* are in flight at once.
C3_MutualExclusion ==
    \A t1, t2 \in Tasks :
        (t1 # t2 /\ InFlight(t1) /\ InFlight(t2)) => chan[t1] # chan[t2]

\* C4. Linearization: when a call's cache-miss fetch installs and returns its
\* window, every exchange already committed on that channel is in the window
\* (unless the window is full, when newer entries may have pushed it out).
C4_ReadSeesCommitted ==
    [][ \A t \in Tasks :
          (pc[t] = "fetched" /\ pc'[t] = "calling") =>
              \A n \in ExchangeIds :
                  (Committed(chan[t], n) /\ Len(history'[t]) < CACHE_HISTORY_LENGTH)
                      => (UserMsg(n) \in Range(history'[t])
                          /\ ModelMsg(n) \in Range(history'[t])) ]_vars

\* C5. Cache/store consistency: every cached window is the last
\* min(CACHE_HISTORY_LENGTH, n) rows of its channel's table, in timestamp
\* order.  Stated where it is most lenient: only while no call is in flight,
\* and with rows of equal timestamp in either order.
C5_CacheStoreConsistency ==
    Quiescent =>
        \A c \in Channels : InCache(c) => cacheWin[c] \in FetchRecent(store[c])

\* C6. Window bound and order: a window holds at most CACHE_HISTORY_LENGTH
\* entries, and the reply of an exchange (appended after its prompt) never
\* precedes that prompt in the window.
C6_WindowBoundAndOrder ==
    \A c \in Channels :
        /\ Len(cacheWin[c]) <= CACHE_HISTORY_LENGTH
        /\ \A i, j \in 1..Len(cacheWin[c]) :
               \A n \in ExchangeIds :
                   (cacheWin[c][i] = ModelMsg(n) /\ cacheWin[c][j] = UserMsg(n))
                       => j < i

\* The bound half of C6 alone: no window exceeds the deque's maxlen.
WindowBounded == \A c \in Channels : Len(cacheWin[c]) <= CACHE_HISTORY_LENGTH

\* C7. Store failure on miss: when the SELECT of a cache miss raises,
\* _get_history raises to its caller instead of returning a window.
C7_ReadFailurePropagates ==
    \A t \in Tasks : readFailed[t] => getOutcome[t] # "returned"

\* C8. Abort before model call: a call whose context read failed makes no
\* model call and returns no model-generated response.
C8_AbortBeforeModelCall ==
    \A t \in Tasks :
        readFailed[t] => (nAttempts[t] = 0 /\ result[t] # ResponseText(prompt[t]))

\* C9. Write-back failure keeps the answer: once the commit has raised, the
\* call has returned the model's reply, having made no model call after the
\* one that succeeded (attempt + 1 in all) and no rotation beyond those of its
\* earlier failed attempts.
C9_WriteFailureKeepsAnswer ==
    \A t \in Tasks :
        writeFailed[t] =>
            /\ pc[t] = "done"
            /\ result[t] = ResponseText(prompt[t])
            /\ nAttempts[t] = attempt[t] + 1
            /\ nRot[t] = attempt[t]

\* C9 witness: a call whose commit raised has returned the reply.
C9_Witness ==
    \E t \in Tasks :
        writeFailed[t] /\ pc[t] = "done" /\ result[t] = ResponseText(prompt[t])

\* C10. No crash on provider outage: whatever the provider's failure, a call
\* that has returned without a reply after calling the model returned the one
\* fixed fallback string; no call ever returns a provider error's text.
C10_FallbackOnOutage ==
    \A t \in Tasks :
        /\ result[t] \notin { <<e, 0>> : e \in ProviderErrors }
        /\ (pc[t] = "done" /\ nAttempts[t] > 0 /\ result[t] # ResponseText(prompt[t]))
               => result[t] = HIGH_TRAFFIC

\* C10 witness: a call has returned the fallback after a failed model call.
C10_Witness ==
    \E t \in Tasks : pc[t] = "done" /\ nAttempts[t] > 0 /\ result[t] = HIGH_TRAFFIC

\* C11. Zero credentials: with no key configured no call ever reaches the
\* model or the key cycler, and every call that has returned returned the
\* fixed unable-to-connect string.
C11_ZeroCredentials ==
    nKeys = 0 =>
        /\ cyclerNext = 0 /\ activeKey = 0
        /\ \A t \in Tasks :
               /\ nAttempts[t] = 0 /\ nRot[t] = 0
               /\ pc[t] \in {"idle", "done"}
               /\ pc[t] = "done" => result[t] = UNABLE_TO_CONNECT

\* C11 witness: a call has returned on a handler without keys whose bot user
\* id is set.
C11_Witness ==
    nKeys = 0 /\ botUserId /\ \E t \in Tasks : pc[t] = "done" /\ result[t] = UNABLE_TO_CONNECT

\* Window w holds exchange n: the prompt immediately followed by the reply.
HoldsExchange(w, n) ==
    \E i \in 1..(Len(w) - 1) : w[i] = UserMsg(n) /\ w[i + 1] = ModelMsg(n)

\* C12. Round-trip: at the moment a call returns the model's reply, its
\* channel is cached and the cached window holds that exchange, so that the
\* next _get_history on the channel is a hit that returns it.  (The claim
\* asks for the exchange at the end of the window; anywhere is asked here.)
C12_RoundTrip ==
    [][ \A t \in Tasks :
          (pc[t] = "saving" /\ pc'[t] = "done") =>
              (InCache(chan[t])' /\ HoldsExchange(cacheWin'[chan[t]], prompt[t])) ]_vars

\* C13. Idempotent get: a _get_history that missed and fetched the window
\* leaves the channel cached, whatever the cache held, so that a second
\* _get_history on the channel with no append in between is a hit: it makes
\* no store fetch and returns the same deque.
C13_IdempotentGet ==
    [][ \A t \in Tasks :
          (pc[t] = "fetched" /\ pc'[t] = "calling") =>
              (InCache(chan[t])' /\ cacheWin'[chan[t]] = history'[t]) ]_vars

\* The channels that have a cached window.
CachedChannels == Range(cacheOrder)

\* C14. Eviction on insert: when the cache holds CACHE_MAX_SIZE conversations
\* and a miss inserts another one, exactly one of the conversations that were
\* cached is removed and the new one is cached.  (The claim also names the
\* one removed, the least recently used; that one is removed at all is asked
\* here.)
C14_EvictOneOnInsert ==
    [][ \A t \in Tasks :
          (/\ pc[t] = "fetched" /\ pc'[t] = "calling"
           /\ Len(cacheOrder) = CACHE_MAX_SIZE
           /\ ~InCache(chan[t]))
          => (/\ chan[t] \in CachedChannels'
              /\ Cardinality(CachedChannels \ CachedChannels') = 1) ]_vars

C16_RotationByOne ==
    /\ [](nKeys > 0 => (activeKey \in 1..nKeys /\ cyclerNext = (activeKey % nKeys) + 1))
    /\ [][ /\ nKeys' = nKeys
           /\ IF \E t \in Tasks : nRot'[t] = nRot[t] + 1
              THEN activeKey' = (activeKey % nKeys) + 1
              ELSE activeKey' = activeKey /\ cyclerNext' = cyclerNext ]_vars

\* C16 witness: two calls in flight on different channels have each rotated,
\* and the active key is back at the first one.
C16_Witness ==
    \E t, u \in Tasks :
        /\ t # u /\ chan[t] # chan[u] /\ InFlight(t) /\ InFlight(u)
        /\ nRot[t] = 1 /\ nRot[u] = 1
        /\ nKeys = 2 /\ activeKey = 1

\* C17. No credential revisit within a request: the keys a call has sent its
\* attempts with are pairwise different (a call makes at most nKeys attempts,
\* so a repeated key is a key revisited before all others were used).
C17_NoKeyRevisit ==
    \A t \in Tasks :
        \A i, j \in 1..Len(keysUsed[t]) : i < j => keysUsed[t][i] # keysUsed[t][j]

\* Message a stands before message b in the sequence s.
Precedes(s, a, b) == \E i, j \in 1..Len(s) : i < j /\ s[i] = a /\ s[j] = b

\* No message stands twice in the sequence s.
NoDuplicates(s) == \A i, j \in 1..Len(s) : i # j => s[i] # s[j]

\* C18. Insert/append race: when a cache-miss insert on a channel completes
\* while another call's write-back has appended its exchange to that channel's
\* window, the window after the insert still holds the appended exchange,
\* prompt before reply, and holds no message twice.
C18_InsertAppendRace ==
    [][ \A t \in Tasks :
          (pc[t] = "fetched" /\ pc'[t] = "calling") =>
              /\ NoDuplicates(cacheWin'[chan[t]])
              /\ \A u \in Tasks :
                     (u # t /\ pc[u] = "saving" /\ chan[u] = chan[t])
                         => HoldsExchange(cacheWin'[chan[t]], prompt[u]) ]_vars

\* C19. Order agreement: two messages of different exchanges that are both in
\* a channel's cached window and in its table stand in the same order in both.
C19_OrderAgreement ==
    \A c \in Channels :
        \A a, b \in Range(cacheWin[c]) :
            (a.text[2] # b.text[2] /\ Precedes(cacheWin[c], a, b))
                => ~Precedes(store[c], b, a)

\* Channel c had no rows when the process started.
InitiallyEmpty(c) == UserMsg(0) \notin Range(store[c])

\* C20. Sliding window: with calls made one at a time and every commit
\* succeeding, the table of an initially empty channel is u1, r1, ..., un, rn
\* for its n successful calls.  Once the n-th has written back (n >= 1) the
\* cached window is the last min(CACHE_HISTORY_LENGTH, 2n) of them, and the
\* next call on the channel sends the model exactly that window followed by
\* its own user turn.
C20_SlidingWindow ==
    \A c \in Channels :
        (InitiallyEmpty(c) /\ store[c] # <<>>) =>
            /\ (\A t \in Tasks : ~(pc[t] = "saving" /\ chan[t] = c))
                   => (InCache(c) /\ cacheWin[c] = LastN(CACHE_HISTORY_LENGTH, store[c]))
            /\ \A t \in Tasks :
                   (pc[t] \in {"calling", "sleeping"} /\ chan[t] = c)
                       => ContextSent(history[t], prompt[t])
                              = Append(LastN(CACHE_HISTORY_LENGTH, store[c]), UserMsg(prompt[t]))

\* C20 witness: more than CACHE_HISTORY_LENGTH messages were exchanged on an
\* initially empty channel, so the oldest have left the window, and all calls
\* have returned.
C20_Witness ==
    \E c \in Channels :
        /\ InitiallyEmpty(c)
        /\ Len(store[c]) > CACHE_HISTORY_LENGTH
        /\ Len(cacheWin[c]) = CACHE_HISTORY_LENGTH
        /\ NoCallRunning

\* The synthesized instruction turns of lines 175-176.
InstructionTurns == {SystemTurn, UnderstoodTurn}

\* C21. Instruction turn is not persisted: a call that found an empty window
\* sends the model the instruction turns before its user turn, and no cached
\* window and no table ever holds an instruction turn.
C21_InstructionNotPersisted ==
    /\ \A c \in Channels :
           /\ Range(cacheWin[c]) \cap InstructionTurns = {}
           /\ Range(store[c]) \cap InstructionTurns = {}
    /\ \A t \in Tasks :
           (pc[t] \in {"calling", "sleeping", "saving"} /\ history[t] = <<>>)
               => ContextSent(history[t], prompt[t])
                      = <<SystemTurn, UnderstoodTurn, UserMsg(prompt[t])>>

\* C21 witness: a call that was sent with the instruction turns has written
\* its exchange to the cache and to the table and has returned.
C21_Witness ==
    \E t \in Tasks :
        /\ pc[t] = "done" /\ history[t] = <<>> /\ nAttempts[t] > 0
        /\ result[t] = ResponseText(prompt[t])
        /\ Committed(chan[t], prompt[t])
        /\ HoldsExchange(cacheWin[chan[t]], prompt[t])

\* C22. Paired persistence: a table holds the prompt of an exchange exactly
\* when it holds its reply, and a call whose commit raised (the failure is
\* logged once, for the transaction of both rows) has left neither row.
C22_PairedPersistence ==
    /\ \A c \in Channels : \A n \in ExchangeIds :
           UserMsg(n) \in Range(store[c]) <=> ModelMsg(n) \in Range(store[c])
    /\ \A t \in Tasks :
           (pc[t] = "done" /\ result[t] = ResponseText(prompt[t])) =>
               IF writeFailed[t]
               THEN \A c \in Channels :
                        /\ UserMsg(prompt[t]) \notin Range(store[c])
                        /\ ModelMsg(prompt[t]) \notin Range(store[c])
               ELSE Committed(chan[t], prompt[t])

\* C22 witness: one exchange is in the table with both rows, and a later
\* call on the same channel has returned after its commit raised.
C22_Witness ==
    \E t \in Tasks :
        /\ pc[t] = "done" /\ writeFailed[t]
        /\ \E n \in ExchangeIds : n # prompt[t] /\ Committed(chan[t], n)

\* C23. Termination: a call makes at most nKeys model calls, and with every
\* awaited call returning, every call in flight returns, with the reply of
\* the model or with the fallback string.
C23_Termination ==
    /\ [](\A t \in Tasks : nAttempts[t] <= nKeys)
    /\ \A t \in Tasks :
           InFlight(t) ~> (/\ pc[t] = "done"
                           /\ result[t] \in {ResponseText(prompt[t]), HIGH_TRAFFIC})

\* C23 witness: a call that used every key has returned while another call
\* is still in flight.
C23_Witness ==
    \E t, u \in Tasks :
        /\ AllFailed(t) /\ nAttempts[t] = nKeys /\ nKeys = MaxKeys
        /\ InFlight(u)

\* C24. Fetch order on miss: the window a cache miss builds from the table is
\* the last CACHE_HISTORY_LENGTH rows of the channel in the order they were
\* inserted, rows of equal timestamp included.
C24_FetchOrder ==
    [][ \A t \in Tasks :
          (pc[t] = "fetching" /\ pc'[t] = "fetched") =>
              history'[t] = LastN(CACHE_HISTORY_LENGTH, store[chan[t]]) ]_vars

\* C25. Cold conversation without instruction: a call made without
\* system_instruction that found an empty window sends the model only its
\* user turn.
C25_ColdWithoutInstruction ==
    ~instructionSupplied =>
        \A t \in Tasks :
            (pc[t] \in {"calling", "sleeping", "saving"} /\ history[t] = <<>>)
                => ContextSent(history[t], prompt[t]) = <<UserMsg(prompt[t])>>

\* C26. rotate return value: a direct configure_next_key call returns False
\* with nKeys <= 1 and True with nKeys >= 2, and with nKeys <= 1 the active
\* key is the one __init__ configured.
C26_RotateReturnValue ==
    /\ rotateReturned # <<>> => rotateReturned = << nKeys >= 2 >>
    /\ nKeys <= 1 => activeKey = nKeys

\* The messages of the exchange of call n.
Exchange(n) == {UserMsg(n), ModelMsg(n)}

\* C27. Exhaustion leaves history untouched: a failing model call and the
\* sleep after it change no window and no table, and a call that has returned
\* after all its attempts failed has left neither its prompt nor a reply in
\* any window or table.
C27_ExhaustionLeavesHistory ==
    /\ [](\A t \in Tasks : AllFailed(t) =>
              \A c \in Channels :
                  /\ Range(cacheWin[c]) \cap Exchange(prompt[t]) = {}
                  /\ Range(store[c]) \cap Exchange(prompt[t]) = {})
    /\ [][ (\E t \in Tasks :
               \/ pc[t] = "calling" /\ pc'[t] \in {"sleeping", "done"}
               \/ pc[t] = "sleeping" /\ pc'[t] = "calling")
           => UNCHANGED <<cacheOrder, cacheWin, store>> ]_vars

\* C27 witness: a call has failed on every key of a two-key pool, on a
\* channel whose cached window holds an earlier exchange.
C27_Witness ==
    \E t \in Tasks :
        /\ AllFailed(t) /\ nAttempts[t] = MaxKeys
        /\ InCache(chan[t]) /\ cacheWin[chan[t]] # <<>>

\* C28. Exchange adjacency: a write-back leaves its prompt and its reply as
\* the last two entries of the window, prompt first, and the entries of one
\* exchange never have an entry of another exchange between them.
C28_ExchangeAdjacency ==
    /\ [](\A c \in Channels : \A i, j \in 1..Len(cacheWin[c]) :
              (/\ i < j
               /\ \E n \in ExchangeIds : {cacheWin[c][i], cacheWin[c][j]} = Exchange(n))
                  => j = i + 1)
    /\ [][ \A t \in Tasks :
             (pc[t] = "calling" /\ pc'[t] = "saving") =>
                 LET w == cacheWin'[chan[t]]
                 IN  /\ Len(w) >= 2
                     /\ w[Len(w) - 1] = UserMsg(prompt[t])
                     /\ w[Len(w)] = ModelMsg(prompt[t]) ]_vars

\* C28 witness: two calls on one channel have both written back to its window
\* and neither commit has returned.
C28_Witness ==
    \E t, u \in Tasks :
        /\ t # u /\ chan[t] = chan[u]
        /\ pc[t] = "saving" /\ pc[u] = "saving"
        /\ HoldsExchange(cacheWin[chan[t]], prompt[t])
        /\ HoldsExchange(cacheWin[chan[t]], prompt[u])

\* C29. Bot-identity gate: while this handler instance has no bot user id,
\* every call on it has returned the unable-to-connect string at once: no
\* SELECT was sent, no model call made, no key rotated, the cache is empty
\* and the tables are as they were, whatever the number of keys and whether
\* or not the bot's own handler instance was given the id.
C29_BotIdentityGate ==
    ~botUserId =>
        /\ cacheOrder = <<>>
        /\ \A c \in Channels :
               /\ cacheWin[c] = <<>>
               /\ store[c] \in PriorHistories
        /\ activeKey = (IF nKeys = 0 THEN 0 ELSE 1)
        /\ \A t \in Tasks :
               /\ pc[t] \in {"idle", "done"}
               /\ pc[t] = "done" => result[t] = UNABLE_TO_CONNECT
               /\ nAttempts[t] = 0 /\ nRot[t] = 0 /\ keysUsed[t] = <<>>
               /\ getOutcome[t] = "none" /\ ~readFailed[t]

\* C29 witness: keys are configured and on_ready has given the id to the
\* bot's own instance; a call on this instance returned the fallback.
C29_Witness ==
    /\ ~botUserId /\ botHandlerUserId /\ nKeys > 0
    /\ \E t \in Tasks : pc[t] = "done" /\ result[t] = UNABLE_TO_CONNECT

\* C30. One-time setup: the setup block is entered at most once and at most
\* one API server task is created, however many on_ready events arrive.
C30_SetupOnce == setupsEntered <= 1 /\ apiTasks <= 1

\* The header reads 'Bearer <token>' (the auth type in any letter case) with
\* one of the allowed tokens.
BearerOfAllowedToken(h) ==
    /\ h.given /\ ~h.empty /\ Len(h.words) = 2
    /\ h.words[1] \in {"Bearer", "bearer"}
    /\ h.words[2] \in allowedTokens

\* The header is there and is 'Bearer <token>' for some token.
BearerOfSomeToken(h) ==
    /\ h.given /\ ~h.empty /\ Len(h.words) = 2
    /\ h.words[1] \in {"Bearer", "bearer"}

\* C31. Webhook authentication: handling a request schedules at most one
\* task, and only with a header 'Bearer <token>' of an allowed token and a
\* payload that has user_id and language_code; a missing header is answered
\* 401, a malformed one 400, an unknown token 403, each without a task
\* scheduled.
C31_WebhookAuthentication ==
    [][ (webRequest # NoRequest /\ webRequest' = NoRequest) =>
          LET h == webRequest.header
              p == webRequest.payload
              scheduled == tasksScheduled' # tasksScheduled
          IN  /\ tasksScheduled' \in {tasksScheduled, tasksScheduled + 1}
              /\ scheduled => (/\ BearerOfAllowedToken(h)
                               /\ PayloadKeys \subseteq p.keys
                               /\ webStatus' = 202)
              /\ (~h.given \/ h.empty) => (webStatus' = 401 /\ ~scheduled)
              /\ (h.given /\ ~h.empty /\ ~BearerOfSomeToken(h))
                     => (webStatus' = 400 /\ ~scheduled)
              /\ (BearerOfSomeToken(h) /\ h.words[2] \notin allowedTokens)
                     => (webStatus' = 403 /\ ~scheduled) ]_vars

\* C31 witness: one request was accepted and its task scheduled; a later one
\* was answered 403 and the number of scheduled tasks is still one.
C31_Witness ==
    /\ nRequests = MaxRequests /\ tasksScheduled = 1 /\ webStatus = 403
    /\ webRequest = NoRequest

====
